---- MODULE Spec2Model ----
(***************************************************************************)
(* Model of resources/codewalker_xml.py: the typed XML object mapping of   *)
(* Sollumz (value coercion, the Property variants, the ElementTree         *)
(* document codec and the indent pretty-printer).                          *)
(*                                                                         *)
(* Python str values are sequences of one-character strings, so that       *)
(* strip/split/replace/join/lower and the numeric conversions are          *)
(* computed, not assumed.  None is the empty tuple and a present optional  *)
(* value v is <<v>>.                                                       *)
(***************************************************************************)
EXTENDS Integers, Sequences, FiniteSets, TLC

VARIABLES
    pc,       \* the call that completed last ("idle" before any call)
    arg,      \* the Python object that call was given
    element,  \* the xml.etree Element that call produced, was given or mutated
    ret,      \* what the call returned or raised
    instance, \* the document the caller assigns to and reads (None before that)
    assigned  \* the assignments made to it, in order: records of name and value

vars == <<pc, arg, element, ret, instance, assigned>>

----------------------------------------------------------------------------
(* Bounds of the enumerated inputs *)

MaxStrLen == 3      \* length of the raw strings given to get_str_type
MaxFlagsLen == 4    \* length of the text of a <Flags> element
MaxVerts == 2       \* number of vectors in a VerticesProperty
MaxItems == 3       \* number of items of a list and of children of a list element
MaxNodes == 3       \* number of elements of a tree given to indent
MaxAssign == 2      \* number of assignments made to the fields of one document

----------------------------------------------------------------------------
(* Python str operations on character sequences *)

None == <<>>
Some(v) == <<v>>

Whitespace == {" ", "\n", "\t"}
DigitChars == <<"0", "1", "2", "3", "4", "5", "6", "7", "8", "9">>
DigitSet == {DigitChars[i] : i \in 1..10}

UpperChars == <<"T", "R", "U", "E", "F", "A", "L", "S", "B", "C">>
LowerChars == <<"t", "r", "u", "e", "f", "a", "l", "s", "b", "c">>

LowerChar(c) ==
    IF \E i \in 1..Len(UpperChars) : UpperChars[i] = c
    THEN LowerChars[CHOOSE i \in 1..Len(UpperChars) : UpperChars[i] = c]
    ELSE c

\* str.lower()
lower(s) == [i \in 1..Len(s) |-> LowerChar(s[i])]

RECURSIVE lstrip(_)
lstrip(s) == IF s /= <<>> /\ s[1] \in Whitespace THEN lstrip(Tail(s)) ELSE s

RECURSIVE rstrip(_)
rstrip(s) ==
    IF s /= <<>> /\ s[Len(s)] \in Whitespace
    THEN rstrip(SubSeq(s, 1, Len(s) - 1))
    ELSE s

\* str.strip()
strip(s) == rstrip(lstrip(s))

\* str.split(sep) for a one-character sep: never empty, ''.split(sep) = ['']
RECURSIVE split(_, _)
split(s, sep) ==
    IF \E i \in 1..Len(s) : s[i] = sep
    THEN LET k == CHOOSE i \in 1..Len(s) :
                      s[i] = sep /\ \A j \in 1..(i - 1) : s[j] /= sep
         IN  <<SubSeq(s, 1, k - 1)>> \o split(SubSeq(s, k + 1, Len(s)), sep)
    ELSE <<s>>

\* sep.join(parts)
RECURSIVE join(_, _)
join(parts, sep) ==
    IF parts = <<>> THEN <<>>
    ELSE IF Len(parts) = 1 THEN parts[1]
    ELSE parts[1] \o sep \o join(Tail(parts), sep)

\* str.replace(c, '') for a one-character c
remove(s, c) == SelectSeq(s, LAMBDA x : x /= c)

\* str.find(c) != -1
contains(s, c) == \E i \in 1..Len(s) : s[i] = c

----------------------------------------------------------------------------
(* Python scalars: bool, int, float, str, None.  A float is the decimal   *)
(* n / 10^d that repr prints for it, normalised (d = 0 or n not a          *)
(* multiple of 10); -0.0 and 0.0 are equal in Python and one value here.   *)

PyNone == [cls |-> "NoneType", b |-> FALSE, n |-> 0, d |-> 0, s |-> <<>>]
PyBool(b) == [cls |-> "bool", b |-> b, n |-> 0, d |-> 0, s |-> <<>>]
PyInt(n) == [cls |-> "int", b |-> FALSE, n |-> n, d |-> 0, s |-> <<>>]
PyStr(s) == [cls |-> "str", b |-> FALSE, n |-> 0, d |-> 0, s |-> s]

RECURSIVE Normal(_, _)
Normal(n, d) == IF d > 0 /\ n % 10 = 0 THEN Normal(n \div 10, d - 1) ELSE <<n, d>>

PyFloat(n, d) ==
    [cls |-> "float", b |-> FALSE, n |-> Normal(n, d)[1], d |-> Normal(n, d)[2],
     s |-> <<>>]

DigitVal(c) == (CHOOSE i \in 1..10 : DigitChars[i] = c) - 1

RECURSIVE DigitsVal(_)
DigitsVal(s) ==
    IF s = <<>> THEN 0
    ELSE DigitsVal(SubSeq(s, 1, Len(s) - 1)) * 10 + DigitVal(s[Len(s)])

AllDigits(s) == \A i \in 1..Len(s) : s[i] \in DigitSet

Signed(s) == s /= <<>> /\ s[1] \in {"+", "-"}
Unsigned(s) == IF Signed(s) THEN Tail(s) ELSE s
Sign(s) == IF s /= <<>> /\ s[1] = "-" THEN -1 ELSE 1

\* int(s) succeeds: optional whitespace, optional sign, one or more digits
int_parses(s) ==
    LET u == Unsigned(strip(s)) IN u /= <<>> /\ AllDigits(u)

int(s) == Sign(strip(s)) * DigitsVal(Unsigned(strip(s)))

\* float(s) succeeds: optional whitespace, optional sign, digits with at
\* most one point and at least one digit (the inputs hold no exponent, inf
\* or nan spelling)
IntPart(u) == split(u, ".")[1]
FracPart(u) == IF contains(u, ".") THEN split(u, ".")[2] ELSE <<>>

float_parses(s) ==
    LET u == Unsigned(strip(s)) IN
        /\ Len(split(u, ".")) <= 2
        /\ AllDigits(IntPart(u)) /\ AllDigits(FracPart(u))
        /\ Len(IntPart(u)) + Len(FracPart(u)) > 0

float(s) ==
    LET u == Unsigned(strip(s)) IN
        PyFloat(Sign(strip(s)) * DigitsVal(IntPart(u) \o FracPart(u)),
                Len(FracPart(u)))

RECURSIVE NatStr(_)
NatStr(n) ==
    IF n < 10 THEN <<DigitChars[n + 1]>>
    ELSE NatStr(n \div 10) \o <<DigitChars[(n % 10) + 1]>>

IntStr(n) == IF n < 0 THEN <<"-">> \o NatStr(-n) ELSE NatStr(n)

RECURSIVE Pow10(_)
Pow10(d) == IF d = 0 THEN 1 ELSE 10 * Pow10(d - 1)

RECURSIVE ZeroPad(_, _)
ZeroPad(s, w) == IF Len(s) >= w THEN s ELSE ZeroPad(<<"0">> \o s, w)

Abs(n) == IF n < 0 THEN -n ELSE n

\* str(x) of a float
FloatStr(f) ==
    (IF f.n < 0 THEN <<"-">> ELSE <<>>)
    \o NatStr(Abs(f.n) \div Pow10(f.d))
    \o <<".">>
    \o (IF f.d = 0 THEN <<"0">> ELSE ZeroPad(NatStr(Abs(f.n) % Pow10(f.d)), f.d))

\* str(x) of a scalar
str(v) ==
    CASE v.cls = "str" -> v.s
      [] v.cls = "bool" -> IF v.b THEN <<"T", "r", "u", "e">>
                                   ELSE <<"F", "a", "l", "s", "e">>
      [] v.cls = "int" -> IntStr(v.n)
      [] v.cls = "float" -> FloatStr(v)
      [] OTHER -> <<"N", "o", "n", "e">>

----------------------------------------------------------------------------
(* Value coercion *)

TrueLit == <<"t", "r", "u", "e">>
FalseLit == <<"f", "a", "l", "s", "e">>

\* get_str_type(value)
get_str_type(value) ==
    IF value.cls = "str"
    THEN IF lower(value.s) = TrueLit \/ lower(value.s) = FalseLit
         THEN PyBool(value.s /= <<>>)    \* bool(value): a str is true when non-empty
         ELSE IF int_parses(value.s) THEN PyInt(int(value.s))
         ELSE IF float_parses(value.s) THEN float(value.s)
         ELSE value
    ELSE value

----------------------------------------------------------------------------
(* Outcome of a call: a returned value or a raised exception.  An          *)
(* exception raised by Element.read_value_error names the element's tag    *)
(* and the reading class in its message.                                   *)

Return(v) == [exc |-> "none", tag |-> "", cls |-> "", val |-> <<v>>]
Raise(exc, tag, cls) == [exc |-> exc, tag |-> tag, cls |-> cls, val |-> <<>>]

\* Element.read_value_error(cls, element)
read_value_error(cls, elem) == Raise("ValueError", elem.tag, cls)

----------------------------------------------------------------------------
(* xml.etree.ElementTree.Element: tag, attrib (a function from the         *)
(* attribute names present to their values), text, tail and children.      *)

NoAttrib == [k \in {} |-> <<>>]

\* ET.Element(tag, attrib): no text, no tail, no children
Element(tag, attrib) ==
    [tag |-> tag, attrib |-> attrib, text |-> None, tail |-> None, children |-> <<>>]

\* element.find(tag): the first direct child with that tag, or None
find(elem, tag) ==
    IF \E i \in 1..Len(elem.children) : elem.children[i].tag = tag
    THEN Some(elem.children[CHOOSE i \in 1..Len(elem.children) :
                  /\ elem.children[i].tag = tag
                  /\ \A j \in 1..(i - 1) : elem.children[j].tag /= tag])
    ELSE None

\* element.findall(tag): the direct children with that tag, in document order
findall(elem, tag) == SelectSeq(elem.children, LAMBDA c : c.tag = tag)

----------------------------------------------------------------------------
(* Python objects.  Every value carries its class in cls, which is what    *)
(* isinstance tests.  A mathutils Vector holds its components; a           *)
(* Quaternion holds the four numbers its constructor is given, read back   *)
(* as x, y, z, w (mathutils is outside the repository).  An                *)
(* ElementProperty is its class, tag_name and value; an AttributeProperty  *)
(* is its name and _value; an ElementTree (a document) is its class,       *)
(* tag_name and its instance attributes in declaration order.              *)

Vector(components) == [cls |-> "Vector", v |-> components]
Quaternion(axis, w) == [cls |-> "Quaternion", v |-> axis \o <<w>>]
List(items) == [cls |-> "list", items |-> items]

Zero == PyFloat(0, 0)
One == PyFloat(1, 0)

\* concrete ListProperty and ElementTree subclasses are declared by the
\* resource modules that use the layer; these stand for them
ListClasses == {"ItemList"}
DocClasses == {"Doc", "Child", "Item"}

ElementPropertyClasses ==
    {"TextProperty", "VectorProperty", "QuaternionProperty", "ValueProperty",
     "VerticesProperty", "FlagsProperty"} \cup ListClasses

\* isinstance(x, Element)
IsElement(x) == x.cls \in ElementPropertyClasses \cup DocClasses

\* isinstance(x, (ElementProperty, AttributeProperty))
IsProperty(x) == x.cls \in ElementPropertyClasses \cup {"AttributeProperty"}

\* bool(x): the truth value of a Python value
truthy(x) ==
    CASE x.cls = "str" -> x.s /= <<>>
      [] x.cls = "bool" -> x.b
      [] x.cls \in {"int", "float"} -> x.n /= 0
      [] x.cls = "NoneType" -> FALSE
      [] x.cls = "list" -> x.items /= <<>>
      [] OTHER -> TRUE

\* ElementProperty.value_types of each class
value_types(cls) ==
    CASE cls = "TextProperty" -> {"str"}
      [] cls = "VectorProperty" -> {"Vector"}
      [] cls = "QuaternionProperty" -> {"Quaternion"}
      [] cls = "ValueProperty" -> {"int", "str", "bool", "float"}
      [] OTHER -> {"list"}

\* ElementProperty.__init__ raises TypeError
ElementProperty_init_raises(cls, value) ==
    truthy(value) /\ ~(value.cls \in value_types(cls))

\* ElementProperty.__init__(self, tag_name, value), when it does not raise
ElementProperty(cls, tag_name, value) ==
    [cls |-> cls, tag_name |-> tag_name, value |-> value]

AttributeProperty(name, value) ==
    [cls |-> "AttributeProperty", name |-> name, _value |-> value]

\* AttributeProperty.value (the getter)
AttributeProperty_value(self) == get_str_type(self._value)

\* x or default
Or(x, default) == IF truthy(x) THEN x ELSE default

TextProperty(tag_name, value) ==
    ElementProperty("TextProperty", tag_name, Or(value, PyStr(<<>>)))

VectorProperty(tag_name, value) ==
    ElementProperty("VectorProperty", tag_name, Or(value, Vector(<<Zero, Zero, Zero>>)))

QuaternionProperty(tag_name, value) ==
    ElementProperty("QuaternionProperty", tag_name,
                    Or(value, Quaternion(<<Zero, Zero, Zero>>, One)))

ValueProperty(tag_name, value) == ElementProperty("ValueProperty", tag_name, value)

VerticesProperty(tag_name, value) ==
    ElementProperty("VerticesProperty", tag_name, Or(value, List(<<>>)))

FlagsProperty(tag_name, value) ==
    ElementProperty("FlagsProperty", tag_name, Or(value, List(<<>>)))

ListProperty(cls, tag_name, value) == ElementProperty(cls, tag_name, Or(value, List(<<>>)))

\* element.text as a Python value
PyText(text) == IF text = None THEN PyNone ELSE PyStr(text[1])

\* TextProperty.from_xml(element)
TextProperty_from_xml(elem) == Return(TextProperty(elem.tag, PyText(elem.text)))

\* TextProperty.to_xml(self): ET.Element takes the keyword argument text=
\* as an XML attribute named "text"; the element's text stays None
TextProperty_to_xml(self) ==
    Element(self.tag_name, [k \in {"text"} |-> self.value.s])

\* the float(element.get(k)) conversions of the names, in order
RECURSIVE Floats(_, _)
Floats(elem, names) ==
    IF names = <<>> THEN Return(<<>>)
    ELSE IF ~float_parses(elem.attrib[names[1]]) THEN Raise("ValueError", "", "float")
    ELSE LET rest == Floats(elem, Tail(names)) IN
         IF rest.exc /= "none" THEN rest
         ELSE Return(<<float(elem.attrib[names[1]])>> \o rest.val[1])

VectorAttribs == <<"x", "y", "z">>
QuaternionAttribs == <<"x", "y", "z", "w">>

Range(seq) == {seq[i] : i \in 1..Len(seq)}

\* VectorProperty.from_xml with the default vector in place of the error
VectorProperty_from_xml_default(elem) ==
    IF ~(\A x \in Range(VectorAttribs) : x \in DOMAIN elem.attrib)
    THEN Return(VectorProperty(elem.tag, PyNone))
    ELSE LET f == Floats(elem, VectorAttribs) IN
         IF f.exc /= "none" THEN f
         ELSE Return(VectorProperty(elem.tag, Vector(f.val[1])))

\* VectorProperty.from_xml(element)
VectorProperty_from_xml(elem) ==
    IF ~(\A x \in Range(VectorAttribs) : x \in DOMAIN elem.attrib)
    THEN read_value_error("VectorProperty", elem)
    ELSE LET f == Floats(elem, VectorAttribs) IN
         IF f.exc /= "none" THEN f
         ELSE Return(VectorProperty(elem.tag, Vector(f.val[1])))

\* VectorProperty.to_xml(self)
VectorProperty_to_xml(self) ==
    Element(self.tag_name,
            [k \in Range(VectorAttribs) |->
                str(self.value.v[CHOOSE i \in 1..3 : VectorAttribs[i] = k])])

\* QuaternionProperty.from_xml(element)
QuaternionProperty_from_xml(elem) ==
    IF ~(\A x \in Range(QuaternionAttribs) : x \in DOMAIN elem.attrib)
    THEN read_value_error("QuaternionProperty", elem)
    ELSE LET f == Floats(elem, QuaternionAttribs) IN
         IF f.exc /= "none" THEN f
         ELSE Return(QuaternionProperty(elem.tag,
                        Quaternion(SubSeq(f.val[1], 1, 3), f.val[1][4])))

\* QuaternionProperty.to_xml(self)
QuaternionProperty_to_xml(self) ==
    Element(self.tag_name,
            [k \in Range(QuaternionAttribs) |->
                str(self.value.v[CHOOSE i \in 1..4 : QuaternionAttribs[i] = k])])

\* ValueProperty.from_xml(element): the missing-attribute branch looks up
\* read_value_error on the builtin ValueError, which has no such attribute
ValueProperty_from_xml(elem) ==
    IF ~("value" \in DOMAIN elem.attrib)
    THEN Raise("AttributeError", "", "ValueError")
    ELSE Return(ValueProperty(elem.tag, get_str_type(PyStr(elem.attrib["value"]))))

\* ValueProperty.to_xml(self)
ValueProperty_to_xml(self) ==
    Element(self.tag_name, [k \in {"value"} |-> str(self.value)])

\* the loop of VerticesProperty.from_xml over the lines of the text
RECURSIVE ReadVertices(_, _)
ReadVertices(elem, lines) ==
    IF lines = <<>> THEN Return(<<>>)
    ELSE LET coords == split(strip(lines[1]), ",") IN
         IF ~(Len(coords) = 3) THEN read_value_error("VerticesProperty", elem)
         ELSE IF \E i \in 1..3 : ~float_parses(coords[i])
         THEN Raise("ValueError", "", "float")
         ELSE LET rest == ReadVertices(elem, Tail(lines)) IN
              IF rest.exc /= "none" THEN rest
              ELSE Return(<<Vector(<<float(coords[1]), float(coords[2]), float(coords[3])>>)>>
                          \o rest.val[1])

\* VerticesProperty.from_xml(element)
VerticesProperty_from_xml(elem) ==
    IF elem.text = None THEN Raise("AttributeError", "", "NoneType")
    ELSE LET text == split(strip(elem.text[1]), "\n")
             read == IF Len(text) > 0 THEN ReadVertices(elem, text) ELSE Return(<<>>)
         IN  IF read.exc /= "none" THEN read
             ELSE Return(VerticesProperty(elem.tag, List(read.val[1])))

\* the text VerticesProperty.to_xml appends for the vertices
RECURSIVE VertexLines(_)
VertexLines(vertices) ==
    IF vertices = <<>> THEN <<>>
    ELSE join([i \in 1..Len(vertices[1].v) |-> str(vertices[1].v[i])], <<",", " ">>)
         \o <<"\n">> \o VertexLines(Tail(vertices))

\* VerticesProperty.to_xml(self), for a list of Vectors
VerticesProperty_to_xml(self) ==
    [Element(self.tag_name, NoAttrib) EXCEPT
        !.text = Some(<<"\n">> \o VertexLines(self.value.items))]

\* FlagsProperty.from_xml with each token stripped in place of the
\* removal of the spaces
FlagsProperty_from_xml_strip(elem) ==
    IF elem.text /= None /\ Len(strip(elem.text[1])) > 0
    THEN LET text == split(elem.text[1], ",") IN
         Return(FlagsProperty(elem.tag, List([i \in 1..Len(text) |-> PyStr(strip(text[i]))])))
    ELSE Return(FlagsProperty(elem.tag, List(<<>>)))

\* FlagsProperty.from_xml(element)
FlagsProperty_from_xml(elem) ==
    IF elem.text /= None /\ Len(strip(elem.text[1])) > 0
    THEN LET text == split(remove(elem.text[1], " "), ",") IN
         IF ~(Len(text) > 0) THEN read_value_error("FlagsProperty", elem)
         ELSE Return(FlagsProperty(elem.tag, List([i \in 1..Len(text) |-> PyStr(text[i])])))
    ELSE Return(FlagsProperty(elem.tag, List(<<>>)))

\* FlagsProperty.to_xml(self), for a list of str
FlagsProperty_to_xml(self) ==
    [Element(self.tag_name, NoAttrib) EXCEPT
        !.text = IF Len(self.value.items) > 0
                 THEN Some(join([i \in 1..Len(self.value.items) |-> self.value.items[i].s],
                                <<",", " ">>))
                 ELSE None]

----------------------------------------------------------------------------
(* Documents: ElementTree and ListProperty *)

Field(name, obj) == [name |-> name, obj |-> obj]

\* the item class of a ListProperty subclass
list_type(cls) == "Item"

\* the class attribute tag_name of an ElementTree subclass
tag_name(cls) == cls

\* cls(): a freshly constructed document, its fields holding their defaults
RECURSIVE New(_)
New(cls) ==
    CASE cls = "Doc" ->
            [cls |-> cls, tag_name |-> tag_name(cls), fields |-> <<
                Field("name", AttributeProperty("name", PyStr(<<>>))),
                Field("text", TextProperty("Name", PyNone)),
                Field("position", VectorProperty("Position", PyNone)),
                Field("rotation", QuaternionProperty("Rotation", PyNone)),
                Field("count", ValueProperty("Count", PyInt(0))),
                Field("flags", FlagsProperty("Flags", PyNone)),
                Field("items", ListProperty("ItemList", "Items", PyNone)),
                Field("child", New("Child"))>>]
      [] cls = "Child" ->
            [cls |-> cls, tag_name |-> tag_name(cls), fields |-> <<
                Field("id", ValueProperty("Id", PyInt(0)))>>]
      [] cls = "Item" ->
            [cls |-> cls, tag_name |-> tag_name(cls), fields |-> <<
                Field("id", AttributeProperty("id", PyInt(0)))>>]

HasField(self, name) == \E i \in 1..Len(self.fields) : self.fields[i].name = name
FieldIndex(self, name) == CHOOSE i \in 1..Len(self.fields) : self.fields[i].name = name

\* ElementTree.__getattribute__(self, key, onlyValue)
ElementTree_getattribute(self, key, onlyValue) ==
    IF ~HasField(self, key) THEN PyNone
    ELSE LET obj == self.fields[FieldIndex(self, key)].obj IN
         IF IsProperty(obj) /\ onlyValue
         THEN IF obj.cls = "AttributeProperty" THEN AttributeProperty_value(obj)
              ELSE obj.value
         ELSE obj

\* object.__setattr__(self, name, value)
object_setattr(self, name, value) ==
    IF HasField(self, name)
    THEN [self EXCEPT !.fields[FieldIndex(self, name)].obj = value]
    ELSE [self EXCEPT !.fields = @ \o <<Field(name, value)>>]

\* ElementTree.__setattr__ storing the value in place of the wrapper
ElementTree_setattr_replace(self, name, value) == object_setattr(self, name, value)

\* ElementTree.__setattr__(self, name, value)
ElementTree_setattr(self, name, value) ==
    LET obj == ElementTree_getattribute(self, name, FALSE) IN
        IF truthy(obj) /\ IsProperty(obj) /\ ~IsProperty(value)
        THEN object_setattr(self, name,
                 IF obj.cls = "AttributeProperty" THEN [obj EXCEPT !._value = value]
                 ELSE [obj EXCEPT !.value = value])
        ELSE object_setattr(self, name, value)

RECURSIVE from_xml(_, _)
RECURSIVE to_xml(_)

\* the loop of ElementTree.from_xml over vars(new), from the i-th on
RECURSIVE ReadFields(_, _, _)
ReadFields(new, elem, i) ==
    IF i > Len(new.fields) THEN Return(new)
    ELSE LET prop_name == new.fields[i].name
             obj_element == new.fields[i].obj
         IN  IF IsElement(obj_element)
             THEN LET child == find(elem, obj_element.tag_name) IN
                  IF child /= None /\ obj_element.tag_name = child[1].tag
                  THEN LET read == from_xml(obj_element.cls, child[1]) IN
                       IF read.exc /= "none" THEN read
                       ELSE ReadFields(ElementTree_setattr(new, prop_name, read.val[1]),
                                       elem, i + 1)
                  ELSE ReadFields(new, elem, i + 1)
             ELSE IF obj_element.cls = "AttributeProperty"
             THEN IF obj_element.name \in DOMAIN elem.attrib /\ new.tag_name = elem.tag
                  THEN ReadFields([new EXCEPT !.fields[i].obj._value =
                                       PyStr(elem.attrib[obj_element.name])],
                                  elem, i + 1)
                  ELSE ReadFields(new, elem, i + 1)
             ELSE ReadFields(new, elem, i + 1)

\* ElementTree.from_xml treating an absent child element as an error
ElementTree_from_xml_strict(cls, elem) ==
    IF \E i \in 1..Len(New(cls).fields) :
            /\ IsElement(New(cls).fields[i].obj)
            /\ find(elem, New(cls).fields[i].obj.tag_name) = None
    THEN read_value_error(cls, elem)
    ELSE ReadFields(New(cls), elem, 1)

\* ElementTree.from_xml(cls, element)
ElementTree_from_xml(cls, elem) == ReadFields(New(cls), elem, 1)

\* root.set(name, value)
SetAttrib(attrib, name, value) ==
    [k \in DOMAIN attrib \cup {name} |-> IF k = name THEN value ELSE attrib[k]]

\* the loop of ElementTree.to_xml over vars(self), from the i-th on
RECURSIVE WriteFields(_, _, _)
WriteFields(self, root, i) ==
    IF i > Len(self.fields) THEN root
    ELSE LET child == self.fields[i].obj IN
         IF IsElement(child)
         THEN WriteFields(self, [root EXCEPT !.children = @ \o <<to_xml(child)>>], i + 1)
         ELSE IF child.cls = "AttributeProperty"
         THEN WriteFields(self,
                  [root EXCEPT !.attrib =
                      SetAttrib(@, child.name, str(AttributeProperty_value(child)))],
                  i + 1)
         ELSE WriteFields(self, root, i + 1)

\* ElementTree.to_xml(self)
ElementTree_to_xml(self) == WriteFields(self, Element(self.tag_name, NoAttrib), 1)

\* the loop of ListProperty.from_xml over the matching children
RECURSIVE ReadItems(_, _)
ReadItems(item_cls, children) ==
    IF children = <<>> THEN Return(<<>>)
    ELSE LET item == from_xml(item_cls, children[1]) IN
         IF item.exc /= "none" THEN item
         ELSE LET rest == ReadItems(item_cls, Tail(children)) IN
              IF rest.exc /= "none" THEN rest
              ELSE Return(<<item.val[1]>> \o rest.val[1])

\* ListProperty.from_xml reading every child, whatever its tag
ListProperty_from_xml_all(cls, elem) ==
    LET new == ListProperty(cls, elem.tag, PyNone)
        items == ReadItems(list_type(cls), elem.children)
    IN  IF items.exc /= "none" THEN items
        ELSE Return([new EXCEPT !.value = List(@.items \o items.val[1])])

\* ListProperty.from_xml(cls, element)
ListProperty_from_xml(cls, elem) ==
    LET new == ListProperty(cls, elem.tag, PyNone)
        children == findall(elem, tag_name(list_type(cls)))
        items == ReadItems(list_type(cls), children)
    IN  IF items.exc /= "none" THEN items
        ELSE Return([new EXCEPT !.value = List(@.items \o items.val[1])])

\* ListProperty.to_xml raises TypeError: an item is not a list_type
ListProperty_to_xml_raises(self) ==
    \E i \in 1..Len(self.value.items) : self.value.items[i].cls /= list_type(self.cls)

\* ListProperty.to_xml(self), when it does not raise
ListProperty_to_xml(self) ==
    [Element(self.tag_name, NoAttrib) EXCEPT
        !.children = [i \in 1..Len(self.value.items) |-> to_xml(self.value.items[i])]]

\* cls.from_xml(element), by class
from_xml(cls, elem) ==
    CASE cls = "TextProperty" -> TextProperty_from_xml(elem)
      [] cls = "VectorProperty" -> VectorProperty_from_xml(elem)
      [] cls = "QuaternionProperty" -> QuaternionProperty_from_xml(elem)
      [] cls = "ValueProperty" -> ValueProperty_from_xml(elem)
      [] cls = "VerticesProperty" -> VerticesProperty_from_xml(elem)
      [] cls = "FlagsProperty" -> FlagsProperty_from_xml(elem)
      [] cls \in ListClasses -> ListProperty_from_xml(cls, elem)
      [] cls \in DocClasses -> ElementTree_from_xml(cls, elem)

\* self.to_xml(), by class
to_xml(self) ==
    CASE self.cls = "TextProperty" -> TextProperty_to_xml(self)
      [] self.cls = "VectorProperty" -> VectorProperty_to_xml(self)
      [] self.cls = "QuaternionProperty" -> QuaternionProperty_to_xml(self)
      [] self.cls = "ValueProperty" -> ValueProperty_to_xml(self)
      [] self.cls = "VerticesProperty" -> VerticesProperty_to_xml(self)
      [] self.cls = "FlagsProperty" -> FlagsProperty_to_xml(self)
      [] self.cls \in ListClasses -> ListProperty_to_xml(self)
      [] self.cls \in DocClasses -> ElementTree_to_xml(self)

----------------------------------------------------------------------------
(* The pretty-printer *)

amount == <<" ", " ">>

\* level * amount
RECURSIVE Indentation(_)
Indentation(level) == IF level = 0 THEN <<>> ELSE amount \o Indentation(level - 1)

\* not text or not text.strip()
Blank(text) == text = None \/ strip(text[1]) = <<>>

\* the re-indented inner text of a leaf: every line of the stripped text
\* prefixed with (level + 1) * amount
IndentedText(text, level) ==
    LET lines == split(strip(text), "\n")
        indented == [k \in 1..Len(lines) |-> Indentation(level + 1) \o lines[k]]
    IN  <<"\n">> \o join(indented, <<"\n">>) \o <<"\n">> \o Indentation(level)

\* indent(elem, level): the element as the call leaves it.  In the branch
\* for an element with children the loop variable shadows elem, so the
\* test after the loop is on the last child.
RECURSIVE indent(_, _)
indent(elem, level) ==
    LET i == <<"\n">> \o Indentation(level)
        n == Len(elem.children)
    IN  IF n > 0
        THEN LET kids == [k \in 1..n |-> indent(elem.children[k], level + 1)] IN
             [elem EXCEPT
                !.text = IF Blank(@) THEN Some(i \o amount) ELSE @,
                !.tail = IF Blank(@) THEN Some(i) ELSE @,
                !.children = [kids EXCEPT ![n].tail = IF Blank(@) THEN Some(i) ELSE @]]
        ELSE [elem EXCEPT
                !.tail = IF level /= 0 /\ Blank(@) THEN Some(i) ELSE @,
                !.text = IF /\ @ /= None
                            /\ Len(strip(@[1])) > 0
                            /\ contains(@[1], "\n")
                         THEN Some(IndentedText(@[1], level))
                         ELSE @]

----------------------------------------------------------------------------
(* Inputs *)

RECURSIVE StringsUpTo(_, _)
StringsUpTo(alphabet, n) ==
    IF n = 0 THEN {<<>>}
    ELSE LET shorter == StringsUpTo(alphabet, n - 1) IN
         shorter \cup {<<c>> \o s : c \in alphabet, s \in {t \in shorter : Len(t) = n - 1}}

UpperChar(c) ==
    IF \E i \in 1..Len(LowerChars) : LowerChars[i] = c
    THEN UpperChars[CHOOSE i \in 1..Len(LowerChars) : LowerChars[i] = c]
    ELSE c

\* every casing of a lower-case word
RECURSIVE Casings(_)
Casings(word) ==
    IF word = <<>> THEN {<<>>}
    ELSE {<<c>> \o rest : c \in {word[1], UpperChar(word[1])}, rest \in Casings(Tail(word))}

RawChars == {"1", "0", "-", ".", " ", "a"}
RawStrings == StringsUpTo(RawChars, MaxStrLen) \cup Casings(TrueLit) \cup Casings(FalseLit)

\* sequences of at most n members of a set
RECURSIVE SeqsUpTo(_, _)
SeqsUpTo(S, n) ==
    IF n = 0 THEN {<<>>}
    ELSE LET shorter == SeqsUpTo(S, n - 1) IN
         shorter \cup {<<x>> \o q : x \in S, q \in {t \in shorter : Len(t) = n - 1}}

\* populated documents, built the way callers build them: by assignment
ItemOf(id) == ElementTree_setattr(New("Item"), "id", id)
ChildOf(id) == ElementTree_setattr(New("Child"), "id", id)
Items == {ItemOf(PyInt(1)), ItemOf(PyInt(2))}

NameValues == {PyStr(<<"a">>), PyInt(1)}
TextValues == {PyStr(<<>>), PyStr(<<"h", "i">>)}
PositionValues == {Vector(<<Zero, Zero, Zero>>), Vector(<<PyFloat(15, 1), Zero, PyFloat(-2, 0)>>)}
RotationValues ==
    {Quaternion(<<Zero, Zero, Zero>>, One), Quaternion(<<PyFloat(5, 1), Zero, Zero>>, PyFloat(2, 0))}
CountValues == {PyInt(0), PyInt(12), PyBool(FALSE), PyStr(<<"a">>)}
FlagValues == {List(<<>>), List(<<PyStr(<<"A">>)>>), List(<<PyStr(<<"A">>), PyStr(<<"B">>)>>)}
ItemsValues == {List(<<>>), List(<<ItemOf(PyInt(1))>>), List(<<ItemOf(PyInt(2)), ItemOf(PyInt(1))>>)}
ChildValues == {ChildOf(PyInt(0)), ChildOf(PyInt(7))}

Assign(doc, names, values) ==
    LET RECURSIVE Go(_, _)
        Go(d, k) == IF k > Len(names) THEN d
                    ELSE Go(ElementTree_setattr(d, names[k], values[k]), k + 1)
    IN  Go(doc, 1)

DocFieldNames ==
    <<"name", "text", "position", "rotation", "count", "flags", "items", "child">>

Documents ==
    {Assign(New("Doc"), DocFieldNames, <<n, t, p, r, c, f, i, ch>>) :
        n \in NameValues, t \in TextValues, p \in PositionValues, r \in RotationValues,
        c \in CountValues, f \in FlagValues, i \in ItemsValues, ch \in ChildValues}

VertexValues ==
    {Vector(<<One, PyFloat(2, 0), PyFloat(3, 0)>>),
     Vector(<<PyFloat(4, 0), PyFloat(55, 1), PyFloat(-6, 0)>>),
     Vector(<<Zero, PyFloat(-25, 2), One>>)}
VerticesObjects ==
    {VerticesProperty("Vertices", List(vs)) : vs \in SeqsUpTo(VertexValues, MaxVerts)}

FlagsObjects ==
    {FlagsProperty("Flags", List(fs)) : fs \in SeqsUpTo({PyStr(<<"A">>), PyStr(<<"B", "C">>)}, MaxItems)}

ListObjects ==
    {ListProperty("ItemList", "Items", List(is)) : is \in SeqsUpTo(Items \cup {ChildOf(PyInt(7))}, MaxItems)}

Writable == Documents \cup VerticesObjects \cup FlagsObjects \cup ListObjects

\* the fields a caller assigns to and the plain values assigned, whatever
\* the field: two strs, an int, a Vector and a list
AssignNames == {"name", "position", "count", "flags", "items"}
PlainValues ==
    {PyStr(<<"1", "2">>), PyStr(<<"a">>), PyInt(5),
     Vector(<<PyFloat(15, 1), Zero, PyFloat(-2, 0)>>), List(<<PyStr(<<"A">>)>>)}

\* source elements
Leaf(tag, attrib, text) == [Element(tag, attrib) EXCEPT !.text = text]
Node(tag, attrib, children) == [Element(tag, attrib) EXCEPT !.children = children]

AttribSets(names, values) ==
    UNION {[present -> values] : present \in SUBSET names}

NumberTexts == {<<"1", ".", "5">>, <<"a">>}
VectorElements == {Element("Position", a) : a \in AttribSets({"x", "y", "z", "w"}, NumberTexts)}
ValueElements ==
    {Element("Count", a) : a \in AttribSets({"value", "x"}, {<<"5">>, <<"F", "a", "l", "s", "e">>, <<"a">>})}

FlagsChars == {"A", "B", ",", " ", "\n"}
FlagsElements ==
    {Leaf("Flags", NoAttrib, t) :
        t \in {None} \cup {Some(x) : x \in StringsUpTo(FlagsChars, MaxFlagsLen)}}

TextElements ==
    {Leaf("Name", NoAttrib, t) : t \in {None, Some(<<>>), Some(<<"h", "i">>), Some(<<" ", "a">>)}}

VerticesElements ==
    {Leaf("Vertices", NoAttrib, t) :
        t \in {None, Some(<<>>), Some(<<"\n">>),
               Some(<<"1", ",", " ", "2", ",", " ", "3", "\n", "4", ",", " ", "5", ",", " ", "6", "\n">>),
               Some(<<"1", ",", "2">>), Some(<<"1", ",", "2", ",", "a">>)}}

ItemElement(id) == Element("Item", [k \in {"id"} |-> id])
ListChildren == {ItemElement(<<"1">>), ItemElement(<<"2">>), Element("Other", NoAttrib)}
ListElements == {Node("Items", NoAttrib, cs) : cs \in SeqsUpTo(ListChildren, MaxItems)}

\* a source element for the document class Doc: each declared field absent
\* or present; the nested document present once or twice
ChildElement(id) == Node("Child", NoAttrib, <<Element("Id", [k \in {"value"} |-> id])>>)
FieldSources ==
    << {<<>>, <<Leaf("Name", NoAttrib, Some(<<"h", "i">>))>>, <<Leaf("Name", NoAttrib, None)>>},
       {<<>>, <<Element("Position", [k \in {"x", "y", "z"} |-> <<"1", ".", "5">>])>>},
       {<<>>, <<Element("Rotation", [k \in {"x", "y", "z", "w"} |-> <<"2">>])>>},
       {<<>>, <<Element("Count", [k \in {"value"} |-> <<"5">>])>>},
       {<<>>, <<Leaf("Flags", NoAttrib, Some(<<"A", ",", " ", "B">>))>>},
       {<<>>, <<Node("Items", NoAttrib, <<ItemElement(<<"2">>), ItemElement(<<"1">>)>>)>>},
       {<<>>, <<ChildElement(<<"7">>)>>, <<ChildElement(<<"7">>), ChildElement(<<"9">>)>>} >>

DocElements ==
    {Node(tag, a, c1 \o c2 \o c3 \o c4 \o c5 \o c6 \o c7) :
        tag \in {"Doc", "Wrong"}, a \in AttribSets({"name"}, {<<"n">>}),
        c1 \in FieldSources[1], c2 \in FieldSources[2], c3 \in FieldSources[3],
        c4 \in FieldSources[4], c5 \in FieldSources[5], c6 \in FieldSources[6],
        c7 \in FieldSources[7]}

\* trees of n elements, each with one of the texts and tails
TreeTexts == {None, Some(<<"x">>), Some(<<"1", "\n", "2">>)}
TreeTails == {None, Some(<<"t">>)}

RECURSIVE TreesOf(_)
RECURSIVE ForestsOf(_)
TreesOf(n) ==
    {[tag |-> "e", attrib |-> NoAttrib, text |-> text, tail |-> tail, children |-> f] :
        text \in TreeTexts, tail \in TreeTails, f \in ForestsOf(n - 1)}
ForestsOf(n) ==
    IF n = 0 THEN {<<>>}
    ELSE UNION {{<<t>> \o f : t \in TreesOf(k), f \in ForestsOf(n - k)} : k \in 1..n}

Trees == UNION {TreesOf(n) : n \in 1..MaxNodes}

----------------------------------------------------------------------------
(* The calls *)

Init ==
    /\ pc = "idle"
    /\ arg = None
    /\ element = None
    /\ ret = None
    /\ instance = None
    /\ assigned = <<>>

\* get_str_type(raw) on a raw string
CallGetStrType ==
    /\ pc = "idle"
    /\ \E raw \in RawStrings :
        /\ arg' = PyStr(raw)
        /\ ret' = Return(get_str_type(PyStr(raw)))
    /\ pc' = "get_str_type"
    /\ UNCHANGED <<element, instance, assigned>>

\* obj.to_xml() on a document or a property
CallToXml ==
    /\ pc = "idle"
    /\ \E obj \in Writable :
        /\ arg' = obj
        /\ IF obj.cls \in ListClasses /\ ListProperty_to_xml_raises(obj)
           THEN /\ element' = None
                /\ ret' = Raise("TypeError", "", obj.cls)
           ELSE /\ element' = Some(to_xml(obj))
                /\ ret' = None
    /\ pc' = "to_xml"
    /\ UNCHANGED <<instance, assigned>>

\* type(obj).from_xml(element) on the element obj.to_xml() returned
ReadBack ==
    /\ pc = "to_xml"
    /\ element /= None
    /\ ret' = from_xml(arg.cls, element[1])
    /\ pc' = "read_back"
    /\ UNCHANGED <<arg, element, instance, assigned>>

\* cls.from_xml(element) on a source element
CallFromXml(cls, sources) ==
    /\ pc = "idle"
    /\ \E elem \in sources :
        /\ element' = Some(elem)
        /\ ret' = from_xml(cls, elem)
    /\ arg' = cls
    /\ pc' = "from_xml"
    /\ UNCHANGED <<instance, assigned>>

\* indent(elem) on a tree
CallIndent ==
    /\ pc = "idle"
    /\ \E tree \in Trees :
        /\ arg' = tree
        /\ element' = Some(indent(tree, 0))
    /\ pc' = "indent"
    /\ UNCHANGED <<ret, instance, assigned>>

\* indent(elem) on the tree a first indent(elem) left
CallIndentAgain ==
    /\ pc = "indent"
    /\ arg' = element[1]
    /\ element' = Some(indent(element[1], 0))
    /\ pc' = "indent_again"
    /\ UNCHANGED <<ret, instance, assigned>>

\* self.name = value on a document: the first assignment is to a freshly
\* constructed one
CallSetAttr ==
    /\ pc \in {"idle", "setattr", "getattr"}
    /\ Len(assigned) < MaxAssign
    /\ \E name \in AssignNames, value \in PlainValues :
        /\ arg' = [name |-> name, value |-> value]
        /\ instance' = Some(ElementTree_setattr(
                            IF instance = None THEN New("Doc") ELSE instance[1],
                            name, value))
        /\ assigned' = Append(assigned, [name |-> name, value |-> value])
    /\ ret' = Return(PyNone)
    /\ pc' = "setattr"
    /\ UNCHANGED element

\* self.key read on the document after the assignments
CallGetAttr ==
    /\ pc \in {"setattr", "getattr"}
    /\ \E key \in AssignNames :
        /\ arg' = [name |-> key, value |-> PyNone]
        /\ ret' = Return(ElementTree_getattribute(instance[1], key, TRUE))
    /\ pc' = "getattr"
    /\ UNCHANGED <<element, instance, assigned>>

Next ==
    \/ CallGetStrType
    \/ CallToXml
    \/ ReadBack
    \/ CallFromXml("Doc", DocElements)
    \/ CallFromXml("TextProperty", TextElements)
    \/ CallFromXml("VectorProperty", VectorElements)
    \/ CallFromXml("QuaternionProperty", VectorElements)
    \/ CallFromXml("ValueProperty", ValueElements)
    \/ CallFromXml("VerticesProperty", VerticesElements)
    \/ CallFromXml("FlagsProperty", FlagsElements)
    \/ CallFromXml("ItemList", ListElements)
    \/ CallIndent
    \/ CallIndentAgain
    \/ CallSetAttr
    \/ CallGetAttr

Spec == Init /\ [][Next]_vars

----------------------------------------------------------------------------
(* Properties *)

\* the caller's view of an object: an AttributeProperty by its value, a
\* document by the views of its fields, a list by the views of its items
RECURSIVE Values(_)
Values(obj) ==
    CASE obj.cls = "AttributeProperty" -> AttributeProperty_value(obj)
      [] obj.cls \in DocClasses ->
            [k \in 1..Len(obj.fields) |-> <<obj.fields[k].name, Values(obj.fields[k].obj)>>]
      [] obj.cls \in ListClasses ->
            [k \in 1..Len(obj.value.items) |-> Values(obj.value.items[k])]
      [] OTHER -> obj.value

\* C1: reading the element a populated document writes, with the same
\* document type, returns a document equal to it field for field (a
\* TextProperty field and an AttributeProperty field included).
C1_RoundTrip ==
    (pc = "read_back" /\ arg.cls = "Doc")
        => (ret.exc = "none" /\ Values(ret.val[1]) = Values(arg))

\* C2: reading a root element whose tag is not the document type's tag
\* fails with UnexpectedRootTag, so no document is returned.
C2_WrongRootFails ==
    (pc = "from_xml" /\ arg = "Doc" /\ element[1].tag /= tag_name("Doc"))
        => ret.exc = "UnexpectedRootTag"

\* C3: get_str_type is total and applies boolean, integer, float, text in
\* that order: every casing of "true" gives True, every casing of "false"
\* gives False, an integer literal gives that integer, and a string that is
\* no boolean and no number comes back unchanged.
C3_CoerceRules ==
    pc = "get_str_type" =>
        /\ ret.exc = "none"
        /\ (lower(arg.s) = TrueLit => ret.val[1] = PyBool(TRUE))
        /\ (lower(arg.s) = FalseLit => ret.val[1] = PyBool(FALSE))
        /\ (int_parses(arg.s) => ret.val[1] = PyInt(int(arg.s)))
        /\ (/\ lower(arg.s) \notin {TrueLit, FalseLit}
            /\ ~int_parses(arg.s)
            /\ ~float_parses(arg.s)
               => ret.val[1] = arg)

\* C4: reading a ValueProperty from an element without a value attribute
\* fails with the error read_value_error raises (naming the element's
\* tag), not with another error and not with a property object.
C4_MissingValueIsMalformed ==
    (pc = "from_xml" /\ arg = "ValueProperty" /\ "value" \notin DOMAIN element[1].attrib)
        => ret = read_value_error("ValueProperty", element[1])

\* C5: reading a VectorProperty from an element lacking any of x, y, z, or
\* a QuaternionProperty from one lacking any of x, y, z, w, fails with the
\* ValueError of read_value_error naming the element's tag; no property
\* object is returned.
C5_Required(cls) == IF cls = "VectorProperty" THEN {"x", "y", "z"} ELSE {"x", "y", "z", "w"}

C5_MissingComponentIsMalformed ==
    (/\ pc = "from_xml"
     /\ arg \in {"VectorProperty", "QuaternionProperty"}
     /\ ~(C5_Required(arg) \subseteq DOMAIN element[1].attrib))
        => (/\ ret.exc = "ValueError"
            /\ ret.tag = element[1].tag
            /\ ret.cls = arg
            /\ ret.val = <<>>)

C5_Witness ==
    /\ pc = "from_xml"
    /\ arg = "VectorProperty"
    /\ DOMAIN element[1].attrib = {"x", "z"}
    /\ \A k \in {"x", "z"} : float_parses(element[1].attrib[k])
    /\ ret = Raise("ValueError", "Position", "VectorProperty")

\* C6: indent is idempotent: a second indent of a tree leaves every text
\* and tail as the first left them.
C6_IndentIdempotent ==
    pc = "indent_again" => element[1] = arg

\* C7: VerticesProperty.to_xml writes a newline and then one "x, y, z"
\* line per vertex, in order, and VerticesProperty.from_xml of that
\* element returns the same sequence, the empty one included.
C7_Line(vertex) == join([i \in 1..3 |-> str(vertex.v[i])], <<",", " ">>)

C7_VerticesRoundTrip ==
    (pc = "read_back" /\ arg.cls = "VerticesProperty")
        => LET text == element[1].text
               vertices == arg.value.items
           IN  /\ text /= None
               /\ text[1] /= <<>>
               /\ text[1][1] = "\n"
               /\ split(Tail(text[1]), "\n")
                     = [k \in 1..(Len(vertices) + 1) |->
                           IF k <= Len(vertices) THEN C7_Line(vertices[k]) ELSE <<>>]
               /\ ret = Return(arg)

\* C8 as stated: FlagsProperty.from_xml splits the text on commas and
\* strips the whitespace around each token, keeping the order; absent or
\* whitespace-only text gives the empty list; to_xml joins a non-empty
\* list with ", " and leaves the text of an empty list unset.
C8_Written ==
    (pc = "to_xml" /\ arg.cls = "FlagsProperty")
        => LET flags == arg.value.items IN
           element[1].text =
               IF flags = <<>> THEN None
               ELSE Some(join([k \in 1..Len(flags) |-> flags[k].s], <<",", " ">>))

C8_Tokens == [k \in 1..Len(ret.val[1].value.items) |-> ret.val[1].value.items[k].s]

C8_FlagsStripTokens ==
    /\ (pc = "from_xml" /\ arg = "FlagsProperty")
        => /\ ret.exc = "none"
           /\ C8_Tokens =
                IF Blank(element[1].text) THEN <<>>
                ELSE LET parts == split(element[1].text[1], ",") IN
                     [k \in 1..Len(parts) |-> strip(parts[k])]
    /\ C8_Written

\* C8 as amended: FlagsProperty.from_xml removes every space character
\* from the text and splits the rest on commas, keeping the order: the
\* tokens hold no space and no comma, and joined by commas they are the
\* text without its spaces (so a space inside a token goes and a tab or
\* newline stays); absent or whitespace-only text gives the empty list;
\* to_xml is as stated.
C8_FlagsRemoveSpaces ==
    /\ (pc = "from_xml" /\ arg = "FlagsProperty")
        => /\ ret.exc = "none"
           /\ IF Blank(element[1].text) THEN C8_Tokens = <<>>
              ELSE /\ join(C8_Tokens, <<",">>) = remove(element[1].text[1], " ")
                   /\ Len(C8_Tokens) > 0
                   /\ \A k \in 1..Len(C8_Tokens) :
                        ~contains(C8_Tokens[k], ",") /\ ~contains(C8_Tokens[k], " ")
    /\ C8_Written

C8_Witness ==
    /\ pc = "from_xml"
    /\ arg = "FlagsProperty"
    /\ element[1].text = Some(<<"A", " ", "B", ",">>)
    /\ C8_Tokens = <<<<"A", "B">>, <<>>>>

\* C9: ListProperty.from_xml returns one item per direct child whose tag
\* is the item type's tag, in document order, ignoring the other children,
\* and the empty list without error when there is none; to_xml writes one
\* child per item in list order, none for the empty list.
RECURSIVE C9_Matching(_, _)
C9_Matching(children, i) ==
    IF i > Len(children) THEN <<>>
    ELSE (IF children[i].tag = tag_name(list_type("ItemList")) THEN <<i>> ELSE <<>>)
         \o C9_Matching(children, i + 1)

C9_ListReadWrite ==
    /\ (pc = "from_xml" /\ arg = "ItemList")
        => /\ ret.exc = "none"
           /\ LET children == element[1].children
                  matching == C9_Matching(children, 1)
                  items == ret.val[1].value.items
              IN  /\ Len(items) = Len(matching)
                  /\ \A k \in 1..Len(items) :
                        /\ items[k].cls = list_type("ItemList")
                        /\ ElementTree_getattribute(items[k], "id", TRUE)
                              = get_str_type(PyStr(children[matching[k]].attrib["id"]))
    /\ (pc = "to_xml" /\ arg.cls = "ItemList" /\ element /= None)
        => LET items == arg.value.items
               children == element[1].children
           IN  /\ Len(children) = Len(items)
               /\ \A k \in 1..Len(items) :
                    /\ children[k].tag = items[k].tag_name
                    /\ children[k].attrib["id"]
                          = str(ElementTree_getattribute(items[k], "id", TRUE))

C9_Witness ==
    /\ pc = "from_xml"
    /\ arg = "ItemList"
    /\ Len(element[1].children) = 3
    /\ element[1].children[1].tag = "Item"
    /\ element[1].children[2].tag = "Other"
    /\ element[1].children[3].tag = "Item"
    /\ element[1].children[1].attrib["id"] = <<"2">>
    /\ element[1].children[3].attrib["id"] = <<"1">>
    /\ ret.exc = "none"
    /\ Len(ret.val[1].value.items) = 2

\* C10: ElementTree.from_xml of an element of the document's tag never
\* fails because declared fields are absent: whichever are absent, the
\* read returns a document, an absent field holds what a freshly
\* constructed document holds, and a present field holds the value read
\* from the element (for a child element, from the first with that tag).
C10_First(elem, tag) ==
    elem.children[CHOOSE i \in 1..Len(elem.children) :
        /\ elem.children[i].tag = tag
        /\ \A j \in 1..(i - 1) : elem.children[j].tag /= tag]

C10_Present(elem, obj) ==
    IF obj.cls = "AttributeProperty" THEN obj.name \in DOMAIN elem.attrib
    ELSE \E i \in 1..Len(elem.children) : elem.children[i].tag = obj.tag_name

C10_AbsentFieldsKeepDefaults ==
    (pc = "from_xml" /\ arg = "Doc" /\ element[1].tag = tag_name("Doc"))
        => /\ ret.exc = "none"
           /\ Len(ret.val[1].fields) = Len(New("Doc").fields)
           /\ \A i \in 1..Len(New("Doc").fields) :
                LET fresh == New("Doc").fields[i].obj
                    got == ret.val[1].fields[i].obj
                IN  IF ~C10_Present(element[1], fresh) THEN got = fresh
                    ELSE IF fresh.cls = "AttributeProperty"
                    THEN AttributeProperty_value(got)
                            = get_str_type(PyStr(element[1].attrib[fresh.name]))
                    ELSE Return(got) = from_xml(fresh.cls, C10_First(element[1], fresh.tag_name))

C10_Witness ==
    /\ pc = "from_xml"
    /\ arg = "Doc"
    /\ element[1].tag = "Doc"
    /\ Len(element[1].children) = 3
    /\ element[1].children[1].tag = "Count"
    /\ element[1].children[2] = ChildElement(<<"7">>)
    /\ element[1].children[3] = ChildElement(<<"9">>)
    /\ DOMAIN element[1].attrib = {}
    /\ ret.exc = "none"
    /\ ret.val[1].fields[2].obj = New("Doc").fields[2].obj
    /\ ret.val[1].fields[5].obj.value = PyInt(5)
    /\ ret.val[1].fields[8].obj.fields[1].obj.value = PyInt(7)

\* the value last assigned to the field, None when none was
C11_Last(name) ==
    LET at == {k \in 1..Len(assigned) : assigned[k].name = name} IN
        IF at = {} THEN None
        ELSE Some(assigned[CHOOSE k \in at : \A j \in at : j <= k].value)

\* what the field holds in a freshly constructed document and in the
\* document assigned to
C11_Fresh(name) == New("Doc").fields[FieldIndex(New("Doc"), name)].obj
C11_Held(name) == instance[1].fields[FieldIndex(instance[1], name)].obj

\* the field still holds a wrapper of the variant and tag or name it had
C11_SameWrapper(name) ==
    /\ HasField(instance[1], name)
    /\ C11_Held(name).cls = C11_Fresh(name).cls
    /\ IF C11_Fresh(name).cls = "AttributeProperty"
       THEN C11_Held(name).name = C11_Fresh(name).name
       ELSE C11_Held(name).tag_name = C11_Fresh(name).tag_name

\* wrapper.value
C11_Value(obj) ==
    IF obj.cls = "AttributeProperty" THEN AttributeProperty_value(obj) ELSE obj.value

\* C11 as stated: after any sequence of plain-value assignments to the
\* Property-backed fields of a document, an assigned field still holds a
\* wrapper of the same variant and tag or name, the wrapper's value is the
\* value last assigned to the field, and reading the field returns that
\* value, not the wrapper.
C11_WrapperTransparent ==
    pc \in {"setattr", "getattr"} =>
        /\ \A name \in AssignNames :
              C11_Last(name) /= None =>
                  /\ C11_SameWrapper(name)
                  /\ C11_Value(C11_Held(name)) = C11_Last(name)[1]
        /\ (pc = "getattr" /\ C11_Last(arg.name) /= None)
              => ret = Return(C11_Last(arg.name)[1])

\* C11 as amended: after any sequence of plain-value assignments, an
\* assigned field still holds a wrapper of the same variant and tag or
\* name, and the wrapper stores the value last assigned to the field;
\* reading an ElementProperty-backed field returns that value, and reading
\* an AttributeProperty-backed field (like the value of its wrapper)
\* returns what get_str_type makes of it: a non-str value and a str that
\* spells no boolean and no number as they are, the other strs coerced.  A
\* field never assigned holds what a freshly constructed document holds.
C11_WrapperKeepsLast ==
    pc \in {"setattr", "getattr"} =>
        /\ \A name \in AssignNames :
              IF C11_Last(name) = None THEN C11_Held(name) = C11_Fresh(name)
              ELSE /\ C11_SameWrapper(name)
                   /\ IF C11_Fresh(name).cls = "AttributeProperty"
                      THEN /\ C11_Held(name)._value = C11_Last(name)[1]
                           /\ C11_Value(C11_Held(name)) = get_str_type(C11_Last(name)[1])
                      ELSE C11_Held(name).value = C11_Last(name)[1]
        /\ (pc = "getattr" /\ C11_Last(arg.name) /= None)
              => LET last == C11_Last(arg.name)[1] IN
                 /\ ret.exc = "none"
                 /\ ~IsProperty(ret.val[1])
                 /\ IF C11_Fresh(arg.name).cls /= "AttributeProperty" THEN ret.val[1] = last
                    ELSE IF last.cls /= "str" THEN ret.val[1] = last
                    ELSE IF int_parses(last.s) THEN ret.val[1] = PyInt(int(last.s))
                    ELSE IF lower(last.s) \in {TrueLit, FalseLit} \/ float_parses(last.s)
                    THEN ret.val[1] = get_str_type(last)
                    ELSE ret.val[1] = last

C11_Witness ==
    /\ pc = "getattr"
    /\ assigned = <<[name |-> "name", value |-> PyStr(<<"a">>)],
                    [name |-> "name", value |-> PyStr(<<"1", "2">>)]>>
    /\ arg.name = "name"
    /\ C11_Held("name") = AttributeProperty("name", PyStr(<<"1", "2">>))
    /\ ret = Return(PyInt(12))

\* the document before the last assignment
C12_Before ==
    Assign(New("Doc"),
           [k \in 1..(Len(assigned) - 1) |-> assigned[k].name],
           [k \in 1..(Len(assigned) - 1) |-> assigned[k].value])

\* C12: assigning to an ElementProperty-backed field a value of the wrong
\* shape for it (one the property's constructor rejects: a non-list to a
\* list-valued field, a non-vector to a VectorProperty field) fails with
\* TypeError at the assignment and leaves the field as it was.
C12_WrongShapeRejected ==
    (/\ pc = "setattr"
     /\ C11_Fresh(arg.name).cls \in ElementPropertyClasses
     /\ ElementProperty_init_raises(C11_Fresh(arg.name).cls, arg.value))
        => /\ ret.exc = "TypeError"
           /\ C11_Held(arg.name)
                 = C12_Before.fields[FieldIndex(C12_Before, arg.name)].obj

====
